---- MODULE Spec2Model ----
(***************************************************************************)
(* A model of the presentation loop of `again` (src/win32.rs, src/game.rs): *)
(* the message pump, the circular DirectSound buffer with its look-ahead,  *)
(* the tone generator and the scrolling pixel pattern.                     *)
(*                                                                         *)
(* The device buffer is one second of audio in the program (48000 pairs).  *)
(* The loop is explored over a buffer of ModelSampleRate pairs; the span   *)
(* arithmetic is also explored at the program's own size (SpecPlan).       *)
(* Floating-point phase is kept exactly, as an integer number of           *)
(* (2*pi / sample_rate) steps; the sine is a rational approximation.       *)
(***************************************************************************)
EXTENDS Integers, Sequences, FiniteSets, TLC

(* ------------------------------------------------------------------ *)
(* Bounds of the exploration                                          *)
(* ------------------------------------------------------------------ *)
ModelSampleRate == 15     \* pairs per second of the explored device buffer
ModelWidth == 4           \* width of the explored frame
ModelHeight == 3          \* height of the explored frame
MaxTicks == 2             \* loop iterations explored
MaxMsgs == 2              \* window messages delivered over a run
MaxDim == 4               \* SpecStep: largest width and height drawn
MaxStepBy == 2            \* SpecStep: largest step_by drawn
MaxRender == 3            \* SpecRender: most pairs asked of one render_sound call
MaxToneMsgs == 9          \* SpecTone: key messages delivered

(* ------------------------------------------------------------------ *)
(* Program constants                                                  *)
(* ------------------------------------------------------------------ *)
SAMPLE_RATE == 48000          \* win32.rs:551
LATENCY_DIVISOR == 15         \* win32.rs:558
VOLUME == 4000                \* win32.rs:594
HZ_INIT == 512                \* win32.rs:107
HZ_STEP == 64                 \* win32.rs:117
BYTES_PER_SAMPLE == 2 * 2     \* size_of::<WORD>() * 2, win32.rs:552
U16_MAX == 65535              \* u16::MAX, the type of HZ
U16_MOD == 65536              \* 2^16
I32_MAX == 2147483647         \* i32::max_value()

(* ------------------------------------------------------------------ *)
(* Fixed-width arithmetic                                             *)
(* The model checker's integers are 32-bit signed: u32 arithmetic is  *)
(* written over 16-bit halves, exact wherever the result is below     *)
(* 2^31 and an evaluation error (never a wrong value) above it.       *)
(* ------------------------------------------------------------------ *)
Min(a, b) == IF a < b THEN a ELSE b
Max(a, b) == IF a > b THEN a ELSE b

\* x modulo 2^32, for x >= 0
U32(x) == (((x \div U16_MOD) % U16_MOD) * U16_MOD) + (x % U16_MOD)
\* is x >= 2^32, for x >= 0
U32Overflows(x) == (x \div U16_MOD) >= U16_MOD
\* a * b modulo 2^32, for b < 2^16
U32Mul(a, b) ==
  U32(((((a \div U16_MOD) * b) % U16_MOD) * U16_MOD) + U32((a % U16_MOD) * b))
\* is a * b >= 2^32, for b < 2^16
U32MulOverflows(a, b) ==
  ((a \div U16_MOD) * b) + (((a % U16_MOD) * b) \div U16_MOD) >= U16_MOD
\* `as u8` of an i32
AsU8(x) == x % 256
\* i32 arithmetic: the values explored stay inside the i32 range
I32Overflows(x) == x > I32_MAX \/ x < (0 - I32_MAX) - 1
\* `as i16` of an f32 that holds an integer value: saturating
AsI16(x) == IF x > 32767 THEN 32767 ELSE IF x < -32768 THEN -32768 ELSE x

RECURSIVE Xor(_, _)
\* bitwise exclusive or of two non-negative integers
Xor(a, b) ==
  IF a = 0 THEN b
  ELSE IF b = 0 THEN a
  ELSE (((a % 2) + (b % 2)) % 2) + 2 * Xor(a \div 2, b \div 2)

(* ------------------------------------------------------------------ *)
(* game.rs: DisplayBuffer                                             *)
(* ------------------------------------------------------------------ *)
Pixel(b, g, r, a) == [b |-> b, g |-> g, r |-> r, a |-> a]
DefaultPixel == Pixel(0, 0, 0, 0)

\* the assertions at the head of step_render
StepRenderAsserts(db) ==
  /\ db.width > 0 /\ db.height > 0
  /\ Len(db.memory) = db.height * db.width
  /\ Len(db.memory) <= I32_MAX

\* x of the pixel at linear index i (0-based)
PixelX(db, i) == i % db.width
\* y of the pixel at linear index i (0-based): divides by height
PixelYByWidth(db, i) == i \div db.width
PixelY(db, i) == i \div db.height

\* the green value step_render stores at linear index i
GreenAtOverPrevious(db, i) ==
  AsU8(db.memory[i + 1].g + Xor(PixelX(db, i), PixelY(db, i)) - db.current_offset)
GreenAt(db, i) == AsU8(Xor(PixelX(db, i), PixelY(db, i)) - db.current_offset)

\* DisplayBuffer::step_render, the assertions holding
step_render_replacing_pixels(db, step_by) ==
  [db EXCEPT
     !.memory = [k \in 1..Len(db.memory) |-> Pixel(0, GreenAt(db, k - 1), 0, 0)],
     !.current_offset = db.current_offset + step_by]
step_render(db, step_by) ==
  [db EXCEPT
     !.memory = [k \in 1..Len(db.memory) |->
                   [db.memory[k] EXCEPT !.g = GreenAt(db, k - 1)]],
     !.current_offset = db.current_offset + step_by]

(* ------------------------------------------------------------------ *)
(* game.rs: SoundBuffer                                               *)
(* ------------------------------------------------------------------ *)
\* sin(2*pi*t / n) * volume, truncated toward zero: Bhaskara's rational
\* approximation of the sine on each half period
SinTimesVolume(t, n, volume) ==
  LET q == (2 * t) % (2 * n)
      h == IF q <= n THEN q ELSE q - n
      m == h * (n - h)
      mag == (volume * 16 * m) \div (5 * n * n - 4 * m)
  IN  IF q <= n THEN mag ELSE 0 - mag

\* the value of the pair rendered at phase t_sin
SampleValue(sb, t_sin) == AsI16(SinTimesVolume(t_sin, sb.sample_rate, sb.volume))

\* the phase advance per pair, 2*pi / wave_period, in steps of 2*pi / sample_rate
PhaseStep(tone_hz) == tone_hz

\* SoundBuffer::render_sound
render_sound_left_only(sb, tone_hz) ==
  [sb EXCEPT
     !.samples = [i \in DOMAIN sb.samples |->
                    IF i < 2 * sb.sample_count /\ i % 2 = 0
                    THEN SampleValue(sb, sb.t_sin + (i \div 2) * PhaseStep(tone_hz))
                    ELSE sb.samples[i]],
     !.t_sin = sb.t_sin + sb.sample_count * PhaseStep(tone_hz)]
render_sound_restarting(sb, tone_hz) ==
  [sb EXCEPT
     !.samples = [i \in DOMAIN sb.samples |->
                    IF i < 2 * sb.sample_count
                    THEN SampleValue(sb, (i \div 2) * PhaseStep(tone_hz))
                    ELSE sb.samples[i]],
     !.t_sin = sb.sample_count * PhaseStep(tone_hz)]
render_sound(sb, tone_hz) ==
  [sb EXCEPT
     !.samples = [i \in DOMAIN sb.samples |->
                    IF i < 2 * sb.sample_count
                    THEN SampleValue(sb, sb.t_sin + (i \div 2) * PhaseStep(tone_hz))
                    ELSE sb.samples[i]],
     !.t_sin = sb.t_sin + sb.sample_count * PhaseStep(tone_hz)]

(* ------------------------------------------------------------------ *)
(* win32.rs: SoundOutput and the DirectSound buffer                   *)
(* ------------------------------------------------------------------ *)
\* the SoundOutput built by win32_main for a device of `rate` pairs per second
SoundOutputInit(rate) ==
  [sample_rate |-> rate,
   buffer_size |-> rate * BYTES_PER_SAMPLE,
   latency_sample_count |-> rate \div LATENCY_DIVISOR,
   bytes_per_sample |-> BYTES_PER_SAMPLE,
   running_sample_index |-> 0]

\* the SoundBuffer built by win32_main: one i16 slot per byte of the device buffer
SoundBufferInit(so) ==
  [samples |-> [i \in 0..(so.buffer_size - 1) |-> 0],
   sample_count |-> 0,
   t_sin |-> 0,
   volume |-> VOLUME,
   sample_rate |-> so.sample_rate]

\* Plan: the write position in bytes
ByteToLockInPairs(so) == so.running_sample_index % so.buffer_size
ByteToLock(so) ==
  U32Mul(so.running_sample_index, so.bytes_per_sample) % so.buffer_size

\* Plan: the byte the write should reach, look-ahead past the play cursor
TargetCursorNoLatency(so, play_cursor) == play_cursor % so.buffer_size
TargetCursorUnreduced(so, play_cursor) ==
  U32(play_cursor + U32Mul(so.latency_sample_count, so.bytes_per_sample))
TargetCursor(so, play_cursor) ==
  U32(play_cursor + U32Mul(so.latency_sample_count, so.bytes_per_sample))
    % so.buffer_size

\* Plan: the length of the span from byte_to_lock up to target_cursor
BytesToWriteSwapped(so, byte_to_lock, target_cursor) ==
  IF byte_to_lock < target_cursor
  THEN so.buffer_size - byte_to_lock + target_cursor
  ELSE byte_to_lock - target_cursor
BytesToWrite(so, byte_to_lock, target_cursor) ==
  IF byte_to_lock > target_cursor
  THEN U32(U32(so.buffer_size - byte_to_lock) + target_cursor)
  ELSE U32(target_cursor - byte_to_lock)

\* does a u32 operation of Plan overflow (a panic when overflow checks are on)
PlanOverflows(so, play_cursor) ==
  \/ U32MulOverflows(so.running_sample_index, so.bytes_per_sample)
  \/ U32MulOverflows(so.latency_sample_count, so.bytes_per_sample)
  \/ U32Overflows(play_cursor + so.latency_sample_count * so.bytes_per_sample)

\* sample_count = bytes_to_write / bytes_per_sample
SampleCountInBytes(so, bytes_to_write) == bytes_to_write
SampleCount(so, bytes_to_write) == bytes_to_write \div so.bytes_per_sample

\* IDirectSoundBuffer::Lock, when it grants: the span as region 1 from
\* `offset` and, when the span passes the end of the buffer, region 2 from 0
Lock(buffer_size, offset, bytes) ==
  LET size1 == Min(bytes, buffer_size - offset)
  IN  [region_1_start |-> offset,
       region_1_size |-> size1,
       region_2_size |-> bytes - size1]

\* the arguments fill_buffer passes to Lock
LockArgsSwapped(byte_to_lock, bytes_to_write) == <<bytes_to_write, byte_to_lock>>
LockArgs(byte_to_lock, bytes_to_write) == <<byte_to_lock, bytes_to_write>>

\* the regions fill_buffer and clear_buffer hand to Unlock
UnlockArgsRegion1Only(reg) == [reg EXCEPT !.region_2_size = 0]
UnlockArgs(reg) == reg

\* no region: the out parameters of Lock as they are declared
NoRegion == [region_1_start |-> 0, region_1_size |-> 0, region_2_size |-> 0]

\* the device memory is kept as i16 samples: sample j is bytes 2j and 2j+1
DeviceSamples(so) == 0..((so.buffer_size \div 2) - 1)

\* the index into source_buffer.samples fill_buffer reads for slot i of region 2:
\* the second loop's sample_index starts again at 0
Region2Source(region_1_sample_count, i) == i

\* SoundOutput::fill_buffer past a granted lock: the device memory after both loops
FillDevice(so, dev, samples, reg) ==
  LET c1 == reg.region_1_size \div so.bytes_per_sample
      c2 == reg.region_2_size \div so.bytes_per_sample
      first == reg.region_1_start \div 2
  IN  [j \in DOMAIN dev |->
         IF j >= first /\ j < first + 2 * c1 THEN samples[j - first]
         ELSE IF j < 2 * c2 THEN samples[Region2Source(c1, j)]
         ELSE dev[j]]

\* the pairs fill_buffer writes into the two regions
PairsWrittenRegion1(so, reg) == reg.region_1_size \div so.bytes_per_sample
PairsWritten(so, reg) ==
  (reg.region_1_size \div so.bytes_per_sample)
    + (reg.region_2_size \div so.bytes_per_sample)

\* the source pair the loops of fill_buffer store last (region 2's last slot when
\* there is a region 2, else region 1's); -1 when no pair is stored
LastSourcePair(so, reg) ==
  LET c1 == reg.region_1_size \div so.bytes_per_sample
      c2 == reg.region_2_size \div so.bytes_per_sample
  IN  IF c2 > 0 THEN Region2Source(c1, 2 * (c2 - 1)) \div 2 ELSE c1 - 1

\* main.rs, SoundOutput::render_to_buffer: the direct path, which generates the
\* pairs into the locked regions; its volume, sample rate and t_sin (fields of
\* main.rs's SoundOutput) are taken from sb, its wave_period is
\* sample_rate / tone_hz
render_to_buffer(so, sb, dev, tone_hz, byte_to_lock, bytes_to_write, granted) ==
  LET reg == Lock(so.buffer_size, byte_to_lock, bytes_to_write)
      c1 == reg.region_1_size \div so.bytes_per_sample
      c2 == reg.region_2_size \div so.bytes_per_sample
      first == reg.region_1_start \div 2
  IN  IF ~granted
      THEN [so |-> so, dev |-> dev, t_sin |-> sb.t_sin]
      ELSE [so |-> [so EXCEPT !.running_sample_index = U32(@ + c1 + c2)],
            dev |-> [j \in DOMAIN dev |->
                       IF j >= first /\ j < first + 2 * c1
                       THEN SampleValue(sb, sb.t_sin
                                            + ((j - first) \div 2) * PhaseStep(tone_hz))
                       ELSE IF j < 2 * c2
                       THEN SampleValue(sb, sb.t_sin
                                            + (c1 + (j \div 2)) * PhaseStep(tone_hz))
                       ELSE dev[j]],
            t_sin |-> sb.t_sin + (c1 + c2) * PhaseStep(tone_hz)]

\* SoundOutput::fill_buffer: granted is the device's answer to Lock
fill_buffer_ignoring_failure(so, dev, samples, byte_to_lock, bytes_to_write, granted) ==
  LET args == LockArgs(byte_to_lock, bytes_to_write)
      reg == Lock(so.buffer_size, args[1], args[2])
  IN  [so |-> [so EXCEPT !.running_sample_index =
                              U32(@ + PairsWritten(so, reg))],
       dev |-> FillDevice(so, dev, samples, reg),
       reg |-> reg,
       locked |-> granted,
       unlocked |-> TRUE,
       released |-> UnlockArgs(reg),
       overflow |-> U32Overflows(so.running_sample_index + PairsWritten(so, reg))]
fill_buffer(so, dev, samples, byte_to_lock, bytes_to_write, granted) ==
  LET args == LockArgs(byte_to_lock, bytes_to_write)
      reg == Lock(so.buffer_size, args[1], args[2])
  IN  IF ~granted
      THEN [so |-> so, dev |-> dev,
            reg |-> [region_1_start |-> 0, region_1_size |-> 0, region_2_size |-> 0],
            locked |-> FALSE, unlocked |-> FALSE, released |-> NoRegion,
            overflow |-> FALSE]
      ELSE [so |-> [so EXCEPT !.running_sample_index =
                                  U32(@ + PairsWritten(so, reg))],
            dev |-> FillDevice(so, dev, samples, reg),
            reg |-> reg,
            locked |-> TRUE,
            unlocked |-> TRUE,
            released |-> UnlockArgs(reg),
            overflow |-> U32Overflows(so.running_sample_index + PairsWritten(so, reg))]

\* SoundOutput::clear_buffer: granted is the device's answer to Lock(0, buffer_size)
clear_buffer(so, dev, granted) ==
  LET reg == Lock(so.buffer_size, 0, so.buffer_size)
  IN  IF ~granted
      THEN dev
      ELSE [j \in DOMAIN dev |->
              IF /\ 2 * j >= reg.region_1_start
                 /\ 2 * j < reg.region_1_start + reg.region_1_size THEN 0
              ELSE IF 2 * j < reg.region_2_size THEN 0
              ELSE dev[j]]

(* ------------------------------------------------------------------ *)
(* win32.rs: DisplayBuffer and the window procedure                   *)
(* ------------------------------------------------------------------ *)
\* Vec::resize_with(new_size, Default::default)
ResizeWith(memory, new_size) ==
  [k \in 1..new_size |-> IF k <= Len(memory) THEN memory[k] ELSE DefaultPixel]

\* the assertion at the head of resize_dib_section
ResizeAssertsWidthOnly(window_width, window_height) == window_width > 0
ResizeAsserts(window_width, window_height) == window_width > 0 /\ window_height > 0

\* DisplayBuffer::resize_dib_section up to its call of step_render
resize_geometry_keeping_memory(db, window_width, window_height) ==
  [db EXCEPT !.width = window_width, !.height = window_height]
resize_geometry(db, window_width, window_height) ==
  [db EXCEPT
     !.width = window_width,
     !.height = window_height,
     !.memory = IF window_width * window_height # Len(db.memory)
                THEN ResizeWith(db.memory, window_width * window_height)
                ELSE db.memory]

\* DisplayBuffer::resize_dib_section, its assertion holding
resize_dib_section(db, window_width, window_height) ==
  step_render(resize_geometry(db, window_width, window_height), 1)

\* handle_key_press: the tone after a key message
KeyToneWrapping(hz, vk, is_down) ==
  IF vk = "VK_UP" /\ is_down THEN (hz + HZ_STEP) % U16_MOD
  ELSE IF vk = "VK_DOWN" /\ is_down THEN (hz - HZ_STEP) % U16_MOD
  ELSE hz
KeyTone(hz, vk, is_down) ==
  IF vk = "VK_UP" /\ is_down THEN Min(hz + HZ_STEP, U16_MAX)
  ELSE IF vk = "VK_DOWN" /\ is_down THEN Max(hz - HZ_STEP, 0)
  ELSE hz

\* handle_key_press: the running flag after a key message
KeyRunningEscapeOnly(running, vk, alt_key_pressed) ==
  IF vk = "VK_ESCAPE" THEN FALSE ELSE running
KeyRunning(running, vk, alt_key_pressed) ==
  IF vk = "VK_ESCAPE" THEN FALSE
  ELSE IF vk = "VK_F4" /\ alt_key_pressed THEN FALSE
  ELSE running

VirtualKeys == {"VK_UP", "VK_DOWN", "VK_ESCAPE", "VK_F4", "VK_OTHER"}
KeyMessages ==
  [message : {"WM_KEY"}, vk : VirtualKeys, is_down : BOOLEAN, alt : BOOLEAN]
PlainMessages ==
  [message : {"WM_SIZE", "WM_CLOSE", "WM_DESTROY", "WM_ACTIVATEAPP",
              "WM_PAINT", "WM_OTHER"},
   vk : {"VK_OTHER"}, is_down : {FALSE}, alt : {FALSE}]
\* no key message handled yet
NoKey == [message |-> "WM_OTHER", vk |-> "VK_OTHER", is_down |-> FALSE, alt |-> FALSE]
\* what the window procedure can be called with
WindowMessages == KeyMessages \cup PlainMessages
\* the window messages whose handling clears RUNNING: WM_CLOSE, WM_DESTROY,
\* Escape, and F4 with Alt held
QuitSignal(m) ==
  \/ m.message \in {"WM_CLOSE", "WM_DESTROY"}
  \/ m.message = "WM_KEY" /\ m.vk = "VK_ESCAPE"
  \/ m.message = "WM_KEY" /\ m.vk = "VK_F4" /\ m.alt
\* what DestroyWindow calls the window procedure with
DestroyMessage ==
  [message |-> "WM_DESTROY", vk |-> "VK_OTHER", is_down |-> FALSE, alt |-> FALSE]
\* what window creation calls the window procedure with
CreationMessages == {m \in PlainMessages : m.message \in {"WM_SIZE", "WM_OTHER"}}

(* ------------------------------------------------------------------ *)
(* State                                                              *)
(* ------------------------------------------------------------------ *)
VARIABLES
  pc,               \* position in win32_main
  RUNNING,          \* static mut RUNNING
  HZ,               \* static mut HZ
  DISPLAY_BUFFER,   \* static mut DISPLAY_BUFFER
  BITMAP_INFO,      \* static mut BITMAP_INFO: biWidth, biHeight
  sound_output,     \* win32_main's SoundOutput
  sound_buffer,     \* win32_main's SoundBuffer
  secondary_buffer, \* memory of the DirectSound secondary buffer, as i16 samples
  play_cursor,      \* local of the loop body
  byte_to_lock,     \* local of the loop body
  target_cursor,    \* local of the loop body
  bytes_to_write,   \* local of the loop body
  lock_result,      \* what the last fill_buffer or clear_buffer got from Lock
  steps,            \* history: the steps of the current loop iteration, in order
  at_tick,          \* history: SoundOutput, device memory, phase at the top of the iteration
  rendered,         \* history: tone, phase, sample_count and scroll offset at the last update_and_render
  presented,        \* history: the frame last handed to StretchDIBits
  stepped,          \* history: the frame before the last step_render, and its step_by
  ticks,            \* history: loop iterations completed
  msgs,             \* history: window messages delivered
  quit_handled,     \* history: a quit signal has been handled
  releases,         \* history: times the cleanup block ran
  produced,         \* history of SpecRender: the pairs its render_sound calls produced
  written,          \* history: the phase one step after the last pair a Write stored
  resized,          \* history of SpecResize: the frame before the resize, the size asked for
  last_key          \* history of SpecKeys: the key message handled last

vars ==
  <<pc, RUNNING, HZ, DISPLAY_BUFFER, BITMAP_INFO, sound_output, sound_buffer,
    secondary_buffer, play_cursor, byte_to_lock, target_cursor, bytes_to_write,
    lock_result, steps, at_tick, rendered, presented, stepped, ticks,
    msgs, quit_handled, releases, produced, written, resized, last_key>>

NoLock ==
  [reg |-> [region_1_start |-> 0, region_1_size |-> 0, region_2_size |-> 0],
   locked |-> FALSE, unlocked |-> FALSE, released |-> NoRegion]

\* the statics of win32.rs, for a frame of width x height
DisplayBufferInit(width, height) ==
  [memory |-> <<>>, current_offset |-> 0, width |-> width, height |-> height]

\* what the memory of a newly created secondary buffer may hold
FreshDeviceMemory(so) ==
  {[j \in DeviceSamples(so) |-> v] : v \in {0, 21845}}

\* the state at position `at` of win32_main, the locals at their declared values
InitWith(at, hz, so, sb, dev, db) ==
  /\ pc = at
  /\ RUNNING = FALSE
  /\ HZ = hz
  /\ DISPLAY_BUFFER = db
  /\ BITMAP_INFO = [biWidth |-> 0, biHeight |-> 0]
  /\ sound_output = so
  /\ sound_buffer = sb
  /\ secondary_buffer = dev
  /\ play_cursor = 0
  /\ byte_to_lock = 0
  /\ target_cursor = 0
  /\ bytes_to_write = 0
  /\ lock_result = NoLock
  /\ steps = <<>>
  /\ at_tick = [so |-> so, dev |-> dev, t_sin |-> sb.t_sin,
                offset |-> db.current_offset]
  /\ rendered = [tone_hz |-> 0, t_sin |-> 0, sample_count |-> 0, offset |-> 0]
  /\ presented = <<>>
  /\ stepped = [from |-> db, by |-> 0]
  /\ ticks = 0
  /\ msgs = 0
  /\ quit_handled = FALSE
  /\ releases = 0
  /\ produced = <<>>
  /\ written = [any |-> FALSE, next_t_sin |-> 0]
  /\ resized = [from |-> db, width |-> db.width, height |-> db.height]
  /\ last_key = NoKey

Init ==
  \E dev \in FreshDeviceMemory(SoundOutputInit(ModelSampleRate)) :
    InitWith("create", HZ_INIT, SoundOutputInit(ModelSampleRate),
             SoundBufferInit(SoundOutputInit(ModelSampleRate)), dev,
             DisplayBufferInit(ModelWidth, ModelHeight))

(* ------------------------------------------------------------------ *)
(* The window procedure                                               *)
(* ------------------------------------------------------------------ *)
\* main_window_callback(message): the resize it starts with, then the match;
\* control returns to `back` unless step_render's assertions fail
WindowProc(m, back) ==
  LET geometry == resize_geometry(DISPLAY_BUFFER, ModelWidth, ModelHeight)
  IN  /\ BITMAP_INFO' = [biWidth |-> ModelWidth, biHeight |-> ModelHeight]
      /\ IF StepRenderAsserts(geometry)
         THEN /\ DISPLAY_BUFFER' = step_render(geometry, 1)
              /\ stepped' = [from |-> geometry, by |-> 1]
              /\ RUNNING' = IF m.message \in {"WM_CLOSE", "WM_DESTROY"} THEN FALSE
                            ELSE IF m.message = "WM_KEY"
                                 THEN KeyRunning(RUNNING, m.vk, m.alt)
                                 ELSE RUNNING
              /\ HZ' = IF m.message = "WM_KEY" THEN KeyTone(HZ, m.vk, m.is_down)
                       ELSE HZ
              /\ presented' = IF m.message = "WM_PAINT"
                              THEN step_render(geometry, 1).memory
                              ELSE presented
              /\ pc' = back
         ELSE /\ DISPLAY_BUFFER' = geometry
              /\ pc' = "panicked"
              /\ UNCHANGED <<RUNNING, HZ, presented, stepped>>
      /\ msgs' = msgs + 1
      /\ quit_handled' = (quit_handled \/ QuitSignal(m))

(* ------------------------------------------------------------------ *)
(* win32_main                                                         *)
(* ------------------------------------------------------------------ *)
Frame == <<DISPLAY_BUFFER, BITMAP_INFO, presented, stepped>>
Sound == <<sound_output, sound_buffer, secondary_buffer, lock_result>>
Locals == <<play_cursor, byte_to_lock, target_cursor, bytes_to_write>>
History == <<steps, at_tick, rendered, ticks>>
Probes == <<produced, written, resized, last_key>>

\* CreateWindowExW sends a creation message to the window procedure
CreateWindow ==
  /\ pc = "create"
  /\ msgs < MaxMsgs
  /\ \E m \in CreationMessages : WindowProc(m, "create")
  /\ UNCHANGED <<Sound, Locals, History, releases, Probes>>

\* CreateWindowExW returns: it has sent at least one message
WindowCreated ==
  /\ pc = "create"
  /\ msgs >= 1
  /\ pc' = "clear"
  /\ UNCHANGED <<RUNNING, HZ, Frame, Sound, Locals, History,
                 msgs, quit_handled, releases, Probes>>

\* sound_output.clear_buffer(secondary_buffer); Play; RUNNING = true
ClearBuffer ==
  /\ pc = "clear"
  /\ \E granted \in BOOLEAN :
       /\ secondary_buffer' = clear_buffer(sound_output, secondary_buffer, granted)
       /\ lock_result' =
            IF granted
            THEN [reg |-> Lock(sound_output.buffer_size, 0, sound_output.buffer_size),
                  locked |-> TRUE, unlocked |-> TRUE,
                  released |-> UnlockArgs(Lock(sound_output.buffer_size, 0,
                                               sound_output.buffer_size))]
            ELSE NoLock
  /\ RUNNING' = TRUE
  /\ pc' = "check"
  /\ UNCHANGED <<HZ, Frame, sound_output, sound_buffer, Locals, History, msgs, quit_handled, releases, Probes>>

\* the condition of `while RUNNING`
LoopContinuesIgnoringFlag(running) == TRUE
LoopContinues(running) == running

\* the positions of win32_main at which window messages are dispatched
PumpPositionsAndPresent == {"pump", "present"}
PumpPositions == {"pump"}

\* while RUNNING: the flag is read at the top of the iteration
LoopCheck ==
  /\ pc = "check"
  /\ IF LoopContinues(RUNNING)
     THEN /\ ticks < MaxTicks
          /\ pc' = "pump"
          /\ steps' = <<>>
          /\ at_tick' = [so |-> sound_output, dev |-> secondary_buffer,
                         t_sin |-> sound_buffer.t_sin,
                         offset |-> DISPLAY_BUFFER.current_offset]
     ELSE /\ pc' = "cleanup"
          /\ UNCHANGED <<steps, at_tick>>
  /\ UNCHANGED <<RUNNING, HZ, Frame, Sound, Locals, rendered, ticks, msgs, quit_handled, releases, Probes>>

\* PeekMessageW returned a window message: DispatchMessageW calls the window procedure
Dispatch ==
  /\ pc \in PumpPositions
  /\ msgs < MaxMsgs
  /\ \E m \in WindowMessages : WindowProc(m, pc)
  /\ UNCHANGED <<Sound, Locals, History, releases, Probes>>

\* PeekMessageW returned WM_QUIT, a thread message no window procedure receives
DispatchQuit ==
  /\ pc \in PumpPositions
  /\ msgs < MaxMsgs
  /\ RUNNING' = FALSE
  /\ msgs' = msgs + 1
  /\ quit_handled' = TRUE
  /\ UNCHANGED <<pc, HZ, Frame, Sound, Locals, History, releases, Probes>>

\* PeekMessageW returned 0: the queue is empty
PumpDone ==
  /\ pc = "pump"
  /\ pc' = "cursor"
  /\ UNCHANGED <<RUNNING, HZ, Frame, Sound, Locals, History,
                 msgs, quit_handled, releases, Probes>>

\* the play cursors GetCurrentPosition is explored with
CursorValues ==
  IF sound_output.sample_rate = SAMPLE_RATE
  THEN {p \in 0..(sound_output.buffer_size - 1) : p % 2000 = 0 \/ p % 1999 = 0}
  ELSE 0..(sound_output.buffer_size - 1)

\* secondary_buffer.GetCurrentPosition(&play_cursor, &write_cursor)
GetCurrentPosition ==
  /\ pc = "cursor"
  /\ \E p \in CursorValues : play_cursor' = p
  /\ pc' = "plan"
  /\ steps' = Append(steps, "cursor")
  /\ UNCHANGED <<RUNNING, HZ, Frame, Sound, byte_to_lock, target_cursor,
                 bytes_to_write, at_tick, rendered, ticks,
                 msgs, quit_handled, releases, Probes>>

\* what a u32 overflow can do: panic (a build with overflow checks) or wrap
OverflowOutcomes(overflows) == IF overflows THEN {"panic", "wrap"} ELSE {"none"}

\* byte_to_lock, target_cursor, bytes_to_write
Plan ==
  /\ pc = "plan"
  /\ \E outcome \in OverflowOutcomes(PlanOverflows(sound_output, play_cursor)) :
       IF outcome = "panic"
       THEN /\ pc' = "panicked"
            /\ UNCHANGED <<byte_to_lock, target_cursor, bytes_to_write, steps>>
       ELSE /\ byte_to_lock' = ByteToLock(sound_output)
            /\ target_cursor' = TargetCursor(sound_output, play_cursor)
            /\ bytes_to_write' =
                 BytesToWrite(sound_output, ByteToLock(sound_output),
                              TargetCursor(sound_output, play_cursor))
            /\ pc' = "count"
            /\ steps' = Append(steps, "plan")
  /\ UNCHANGED <<RUNNING, HZ, Frame, Sound, play_cursor, at_tick, rendered,
                 ticks, msgs, quit_handled, releases, Probes>>

\* sound_buffer.sample_count = bytes_to_write / bytes_per_sample
SetSampleCount ==
  /\ pc = "count"
  /\ sound_buffer' =
       [sound_buffer EXCEPT !.sample_count = SampleCount(sound_output, bytes_to_write)]
  /\ pc' = "render"
  /\ steps' = Append(steps, "count")
  /\ UNCHANGED <<RUNNING, HZ, Frame, sound_output, secondary_buffer, lock_result,
                 Locals, at_tick, rendered, ticks, msgs, quit_handled, releases, Probes>>

\* update_and_render(&mut DISPLAY_BUFFER, &mut sound_buffer, HZ)
UpdateAndRender ==
  /\ pc = "render"
  /\ sound_buffer' = render_sound(sound_buffer, HZ)
  /\ rendered' = [tone_hz |-> HZ, t_sin |-> sound_buffer.t_sin,
                  sample_count |-> sound_buffer.sample_count,
                  offset |-> DISPLAY_BUFFER.current_offset]
  /\ IF StepRenderAsserts(DISPLAY_BUFFER)
     THEN /\ DISPLAY_BUFFER' = step_render(DISPLAY_BUFFER, 1)
          /\ stepped' = [from |-> DISPLAY_BUFFER, by |-> 1]
          /\ pc' = "write"
          /\ steps' = Append(steps, "render")
     ELSE /\ pc' = "panicked"
          /\ UNCHANGED <<DISPLAY_BUFFER, stepped, steps>>
  /\ UNCHANGED <<RUNNING, HZ, BITMAP_INFO, presented, sound_output,
                 secondary_buffer, lock_result, Locals, at_tick, ticks, msgs, quit_handled, releases, Probes>>

\* sound_output.fill_buffer(secondary_buffer, &sound_buffer, byte_to_lock, bytes_to_write)
FillBuffer ==
  /\ pc = "write"
  /\ \E granted \in BOOLEAN :
       LET r == fill_buffer(sound_output, secondary_buffer, sound_buffer.samples,
                            byte_to_lock, bytes_to_write, granted)
       IN  /\ lock_result' = [reg |-> r.reg, locked |-> r.locked,
                               unlocked |-> r.unlocked, released |-> r.released]
           /\ \E outcome \in OverflowOutcomes(r.overflow) :
                IF outcome = "panic"
                THEN /\ pc' = "panicked"
                     /\ UNCHANGED <<sound_output, secondary_buffer, steps>>
                ELSE /\ sound_output' = r.so
                     /\ secondary_buffer' = r.dev
                     /\ pc' = "present"
                     /\ steps' = Append(steps, "write")
           /\ written' =
                IF r.locked /\ LastSourcePair(sound_output, r.reg) >= 0
                THEN [any |-> TRUE,
                      next_t_sin |-> rendered.t_sin
                                       + (LastSourcePair(sound_output, r.reg) + 1)
                                           * PhaseStep(rendered.tone_hz)]
                ELSE written
  /\ UNCHANGED <<RUNNING, HZ, Frame, sound_buffer, Locals, at_tick, rendered,
                 ticks, msgs, quit_handled, releases, produced, resized, last_key>>

\* DISPLAY_BUFFER.draw_to_window(...): the end of the iteration
DrawToWindow ==
  /\ pc = "present"
  /\ presented' = DISPLAY_BUFFER.memory
  /\ steps' = Append(steps, "present")
  /\ ticks' = ticks + 1
  /\ pc' = "check"
  /\ UNCHANGED <<RUNNING, HZ, DISPLAY_BUFFER, BITMAP_INFO, stepped, Sound, Locals,
                 at_tick, rendered, msgs, quit_handled, releases, Probes>>

\* the cleanup block after the loop
Cleanup ==
  /\ pc = "cleanup"
  /\ releases' = releases + 1
  /\ WindowProc(DestroyMessage, "done")
  /\ UNCHANGED <<Sound, Locals, History, Probes>>

Next ==
  \/ CreateWindow
  \/ WindowCreated
  \/ ClearBuffer
  \/ LoopCheck
  \/ Dispatch
  \/ DispatchQuit
  \/ PumpDone
  \/ GetCurrentPosition
  \/ Plan
  \/ SetSampleCount
  \/ UpdateAndRender
  \/ FillBuffer
  \/ DrawToWindow
  \/ Cleanup

Spec == Init /\ [][Next]_vars

(* ------------------------------------------------------------------ *)
(* SpecQuit: the program run to its end                               *)
(* ------------------------------------------------------------------ *)
\* the play cursors SpecQuit is explored with: those on a pair boundary
QuitCursorValues == {p \in CursorValues : p % sound_output.bytes_per_sample = 0}

\* secondary_buffer.GetCurrentPosition(&play_cursor, &write_cursor)
GetCurrentPositionOnPair ==
  /\ pc = "cursor"
  /\ \E p \in QuitCursorValues : play_cursor' = p
  /\ pc' = "plan"
  /\ steps' = Append(steps, "cursor")
  /\ UNCHANGED <<RUNNING, HZ, Frame, Sound, byte_to_lock, target_cursor,
                 bytes_to_write, at_tick, rendered, ticks,
                 msgs, quit_handled, releases, Probes>>

NextQuit ==
  \/ CreateWindow
  \/ WindowCreated
  \/ ClearBuffer
  \/ LoopCheck
  \/ Dispatch
  \/ DispatchQuit
  \/ PumpDone
  \/ GetCurrentPositionOnPair
  \/ Plan
  \/ SetSampleCount
  \/ UpdateAndRender
  \/ FillBuffer
  \/ DrawToWindow
  \/ Cleanup

\* every step that can be taken is eventually taken: calls return and each
\* iteration completes
SpecQuit == Init /\ [][NextQuit]_vars /\ WF_vars(NextQuit)

(* ------------------------------------------------------------------ *)
(* SpecWrites: the loop from the top of its second iteration          *)
(* ------------------------------------------------------------------ *)
\* the play cursors read by the first iteration
FirstCursors == {4, 48}

\* the sink and the tone buffer after one creation message and a first iteration
\* that pumped no message, read play cursor p and was granted both locks
AfterFirstTick(p, dev) ==
  LET so == SoundOutputInit(ModelSampleRate)
      cleared == clear_buffer(so, dev, TRUE)
      lock_at == ByteToLock(so)
      target == TargetCursor(so, p)
      bytes == BytesToWrite(so, lock_at, target)
      sb == render_sound([SoundBufferInit(so) EXCEPT
                            !.sample_count = SampleCount(so, bytes)], HZ_INIT)
      r == fill_buffer(so, cleared, sb.samples, lock_at, bytes, TRUE)
      created == resize_dib_section(DisplayBufferInit(ModelWidth, ModelHeight),
                                    ModelWidth, ModelHeight)
  IN  [so |-> so, cleared |-> cleared, lock_at |-> lock_at, target |-> target,
       bytes |-> bytes, sb |-> sb, r |-> r, created |-> created]

InitWrites ==
  \E p \in FirstCursors :
    \E dev \in FreshDeviceMemory(SoundOutputInit(ModelSampleRate)) :
      LET t == AfterFirstTick(p, dev)
      IN  /\ pc = "check"
          /\ RUNNING = TRUE
          /\ HZ = HZ_INIT
          /\ DISPLAY_BUFFER = step_render(t.created, 1)
          /\ BITMAP_INFO = [biWidth |-> ModelWidth, biHeight |-> ModelHeight]
          /\ sound_output = t.r.so
          /\ sound_buffer = t.sb
          /\ secondary_buffer = t.r.dev
          /\ play_cursor = p
          /\ byte_to_lock = t.lock_at
          /\ target_cursor = t.target
          /\ bytes_to_write = t.bytes
          /\ lock_result = [reg |-> t.r.reg, locked |-> TRUE, unlocked |-> TRUE,
                            released |-> t.r.released]
          /\ steps = <<"cursor", "plan", "count", "render", "write", "present">>
          /\ at_tick = [so |-> t.so, dev |-> t.cleared, t_sin |-> 0,
                        offset |-> t.created.current_offset]
          /\ rendered = [tone_hz |-> HZ_INIT, t_sin |-> 0,
                         sample_count |-> t.sb.sample_count,
                         offset |-> t.created.current_offset]
          /\ presented = step_render(t.created, 1).memory
          /\ stepped = [from |-> t.created, by |-> 1]
          /\ ticks = 1
          /\ msgs = 1
          /\ quit_handled = FALSE
          /\ releases = 0
          /\ produced = <<>>
          /\ written = [any |-> TRUE, next_t_sin |-> t.sb.t_sin]
          /\ resized = [from |-> DisplayBufferInit(ModelWidth, ModelHeight),
                        width |-> ModelWidth, height |-> ModelHeight]
          /\ last_key = NoKey

\* while RUNNING, explored for MaxTicks iterations after the first
LoopCheckLate ==
  /\ pc = "check"
  /\ IF LoopContinues(RUNNING)
     THEN /\ ticks < MaxTicks + 1
          /\ pc' = "pump"
          /\ steps' = <<>>
          /\ at_tick' = [so |-> sound_output, dev |-> secondary_buffer,
                         t_sin |-> sound_buffer.t_sin,
                         offset |-> DISPLAY_BUFFER.current_offset]
     ELSE /\ pc' = "cleanup"
          /\ UNCHANGED <<steps, at_tick>>
  /\ UNCHANGED <<RUNNING, HZ, Frame, Sound, Locals, rendered, ticks, msgs, quit_handled, releases, Probes>>

NextWrites ==
  \/ LoopCheckLate
  \/ Dispatch
  \/ PumpDone
  \/ GetCurrentPosition
  \/ Plan
  \/ SetSampleCount
  \/ UpdateAndRender
  \/ FillBuffer
  \/ DrawToWindow

SpecWrites == InitWrites /\ [][NextWrites]_vars

(* ------------------------------------------------------------------ *)
(* SpecTone: key messages, then a render                              *)
(* ------------------------------------------------------------------ *)
InitTone ==
  InitWith("tone", HZ_INIT, SoundOutputInit(ModelSampleRate),
           [SoundBufferInit(SoundOutputInit(ModelSampleRate)) EXCEPT
              !.sample_count = 2],
           <<>>, DisplayBufferInit(ModelWidth, ModelHeight))

\* DispatchMessageW with a key message
ToneKey ==
  /\ pc = "tone"
  /\ msgs < MaxToneMsgs
  /\ \E m \in KeyMessages : WindowProc(m, "tone")
  /\ UNCHANGED <<Sound, Locals, History, releases, Probes>>

\* the queue is empty: on to update_and_render
TonePumpDone ==
  /\ pc = "tone"
  /\ msgs >= 1
  /\ pc' = "render"
  /\ UNCHANGED <<RUNNING, HZ, Frame, Sound, Locals, History, msgs, quit_handled, releases, Probes>>

NextTone ==
  \/ ToneKey
  \/ TonePumpDone
  \/ UpdateAndRender

SpecTone == InitTone /\ [][NextTone]_vars

(* ------------------------------------------------------------------ *)
(* SpecKeys: key messages at the ends of the tone's range             *)
(* ------------------------------------------------------------------ *)
\* tones that key presses reach from HZ_INIT: multiples of HZ_STEP, U16_MAX
\* once the tone has saturated, and U16_MAX less multiples of HZ_STEP after that
KeyStarts ==
  {0, HZ_STEP - 1, HZ_STEP, HZ_INIT, U16_MAX - (2 * HZ_STEP - 1),
   U16_MAX - HZ_STEP, U16_MAX - (HZ_STEP - 1), U16_MAX}

InitKeys ==
  \E hz \in KeyStarts :
    InitWith("keys", hz, SoundOutputInit(ModelSampleRate),
             SoundBufferInit(SoundOutputInit(ModelSampleRate)), <<>>,
             DisplayBufferInit(ModelWidth, ModelHeight))

\* DispatchMessageW with a key message
KeyPress ==
  /\ pc = "keys"
  /\ msgs < MaxMsgs
  /\ \E m \in KeyMessages :
       /\ WindowProc(m, "keys")
       /\ last_key' = m
  /\ UNCHANGED <<Sound, Locals, History, releases, produced, written, resized>>

SpecKeys == InitKeys /\ [][KeyPress]_vars

(* ------------------------------------------------------------------ *)
(* SpecPlan: the span arithmetic at the size of the program's buffer  *)
(* ------------------------------------------------------------------ *)
\* running sample indexes the arithmetic is explored from
PlanIndexes ==
  {0, 1, 799, 800, 801, 1600, 24000, 47199, 47200, 47201, 47900, 47999, 48000,
   48800, 95900}

\* look-aheads the arithmetic is explored with: the program's, and a shorter one
PlanLatencies == {SAMPLE_RATE \div LATENCY_DIVISOR, 800}

InitPlan ==
  \E index \in PlanIndexes, latency \in PlanLatencies :
    InitWith("cursor", HZ_INIT,
             [SoundOutputInit(SAMPLE_RATE) EXCEPT
                !.running_sample_index = index,
                !.latency_sample_count = latency],
             [SoundBufferInit(SoundOutputInit(0)) EXCEPT !.sample_rate = SAMPLE_RATE],
             <<>>, DisplayBufferInit(ModelWidth, ModelHeight))

NextPlan ==
  \/ GetCurrentPosition
  \/ Plan
  \/ SetSampleCount

SpecPlan == InitPlan /\ [][NextPlan]_vars

(* ------------------------------------------------------------------ *)
(* SpecWrap: the span arithmetic after 2^30 pairs                     *)
(* ------------------------------------------------------------------ *)
\* the first running sample index whose product with bytes_per_sample passes 2^32
OverflowIndex == U16_MOD * (U16_MOD \div BYTES_PER_SAMPLE)

\* running sample indexes a long run reaches
WrapIndexes == {OverflowIndex, OverflowIndex + 1, OverflowIndex + 800}

InitWrap ==
  \E index \in WrapIndexes :
    InitWith("cursor", HZ_INIT,
             [SoundOutputInit(SAMPLE_RATE) EXCEPT !.running_sample_index = index],
             [SoundBufferInit(SoundOutputInit(0)) EXCEPT !.sample_rate = SAMPLE_RATE],
             <<>>, DisplayBufferInit(ModelWidth, ModelHeight))

SpecWrap == InitWrap /\ [][NextPlan]_vars

(* ------------------------------------------------------------------ *)
(* SpecStep: step_render over drawn frames                            *)
(* ------------------------------------------------------------------ *)
\* scroll offsets the frames are drawn with
StepOffsets == {0, 1, 2, 40, 255, 256, 300}

\* pixel contents the frames are drawn with: fresh, or left by earlier use
StepMemories(n) ==
  {[k \in 1..n |-> DefaultPixel],
   [k \in 1..n |-> Pixel((7 * k) % 256, (200 + k) % 256, (3 * k) % 256, 255)]}

InitStep ==
  \E width \in 1..MaxDim, height \in 1..MaxDim, offset \in StepOffsets :
    \E memory \in StepMemories(width * height), hz \in {HZ_INIT, HZ_INIT + HZ_STEP} :
      InitWith("step", hz, SoundOutputInit(0), SoundBufferInit(SoundOutputInit(0)), <<>>,
               [memory |-> memory, current_offset |-> offset,
                width |-> width, height |-> height])

\* DISPLAY_BUFFER.step_render(step_by)
StepRender ==
  /\ pc \in {"step", "resized"}
  /\ \E step_by \in 1..MaxStepBy :
       IF StepRenderAsserts(DISPLAY_BUFFER)
       THEN /\ DISPLAY_BUFFER' = step_render(DISPLAY_BUFFER, step_by)
            /\ stepped' = [from |-> DISPLAY_BUFFER, by |-> step_by]
            /\ pc' = "stepped"
       ELSE /\ pc' = "panicked"
            /\ UNCHANGED <<DISPLAY_BUFFER, stepped>>
  /\ UNCHANGED <<RUNNING, HZ, BITMAP_INFO, presented, Sound, Locals, History,
                 msgs, quit_handled, releases, Probes>>

SpecStep == InitStep /\ [][StepRender]_vars

(* ------------------------------------------------------------------ *)
(* SpecResize: resize_dib_section over drawn frames and sizes         *)
(* ------------------------------------------------------------------ *)
\* the sizes resize_dib_section is called with: positive, zero and negative
ResizeDims == (0 - 1)..MaxDim

\* the frames resized: the static as declared (no pixels yet), and frames in use
InitResize ==
  \E width \in 1..MaxDim, height \in 1..MaxDim, offset \in {0, 40, 255} :
    \E memory \in StepMemories(width * height) \cup {<<>>} :
      /\ memory = <<>> => offset = 0
      /\ InitWith("resize", HZ_INIT, SoundOutputInit(0), SoundBufferInit(SoundOutputInit(0)),
                  <<>>,
                  [memory |-> memory, current_offset |-> offset,
                   width |-> width, height |-> height])

\* DISPLAY_BUFFER.resize_dib_section(&mut BITMAP_INFO, window_width, window_height)
Resize ==
  /\ pc = "resize"
  /\ \E window_width \in ResizeDims, window_height \in ResizeDims :
       /\ resized' = [from |-> DISPLAY_BUFFER, width |-> window_width,
                      height |-> window_height]
       /\ IF ResizeAsserts(window_width, window_height)
          THEN LET geometry == resize_geometry(DISPLAY_BUFFER, window_width,
                                               window_height)
               IN  /\ BITMAP_INFO' = [biWidth |-> window_width,
                                      biHeight |-> window_height]
                   /\ IF StepRenderAsserts(geometry)
                      THEN /\ DISPLAY_BUFFER' = step_render(geometry, 1)
                           /\ stepped' = [from |-> geometry, by |-> 1]
                           /\ pc' = "resized"
                      ELSE /\ DISPLAY_BUFFER' = geometry
                           /\ pc' = "panicked"
                           /\ UNCHANGED stepped
          ELSE /\ pc' = "panicked"
               /\ UNCHANGED <<DISPLAY_BUFFER, BITMAP_INFO, stepped>>
  /\ UNCHANGED <<RUNNING, HZ, presented, Sound, Locals, History, msgs, quit_handled, releases,
                 produced, written, last_key>>

NextResize ==
  \/ Resize
  \/ StepRender

SpecResize == InitResize /\ [][NextResize]_vars

(* ------------------------------------------------------------------ *)
(* SpecRender: two render_sound calls in a row                        *)
(* ------------------------------------------------------------------ *)
\* tones and starting phases the calls are explored with
RenderTones == {HZ_INIT - HZ_STEP, HZ_INIT, HZ_INIT + HZ_STEP}
RenderPhases == {0, 7, 100}

InitRender ==
  \E tone_hz \in RenderTones, t_sin \in RenderPhases :
    InitWith("render1", tone_hz, SoundOutputInit(ModelSampleRate),
             [SoundBufferInit(SoundOutputInit(ModelSampleRate)) EXCEPT
                !.t_sin = t_sin],
             <<>>, DisplayBufferInit(ModelWidth, ModelHeight))

\* the pairs a render_sound call left at the head of sb.samples
RenderedPairs(sb) ==
  [k \in 1..sb.sample_count |-> <<sb.samples[2 * (k - 1)], sb.samples[2 * (k - 1) + 1]>>]

\* sound_buffer.sample_count = n; sound_buffer.render_sound(HZ)
RenderCall ==
  /\ pc \in {"render1", "render2"}
  /\ \E n \in 0..MaxRender :
       /\ sound_buffer' = render_sound([sound_buffer EXCEPT !.sample_count = n], HZ)
       /\ produced' =
            produced \o RenderedPairs(render_sound([sound_buffer EXCEPT
                                                      !.sample_count = n], HZ))
       /\ rendered' = [tone_hz |-> HZ, t_sin |-> sound_buffer.t_sin,
                       sample_count |-> n, offset |-> DISPLAY_BUFFER.current_offset]
  /\ pc' = IF pc = "render1" THEN "render2" ELSE "rendered"
  /\ UNCHANGED <<RUNNING, HZ, Frame, sound_output, secondary_buffer, lock_result,
                 Locals, steps, at_tick, ticks, msgs, quit_handled, releases, written, resized,
                 last_key>>

SpecRender == InitRender /\ [][RenderCall]_vars

(* ------------------------------------------------------------------ *)
(* Properties                                                         *)
(* ------------------------------------------------------------------ *)
\* the Plan of the current iteration has run
Planned == pc \in {"count", "render", "write", "present"}

\* C1: once Plan has run, byte_to_lock = (running_sample_index * bytes_per_pair)
\* mod buffer_size, target_cursor = (P + L * bytes_per_pair) mod buffer_size, and
\* bytes_to_write = buffer_size - byte_to_lock + target_cursor when byte_to_lock >
\* target_cursor, otherwise target_cursor - byte_to_lock; with buffer_size = 192000
\* and L = 800, index 0 and P = 0 give 0, 3200, 3200, and index 47900 and
\* P = 190000 give 191600, 1200, 1600.
C1_PlanArithmetic ==
  Planned =>
    LET size == sound_output.buffer_size
        pair == sound_output.bytes_per_sample
        index == sound_output.running_sample_index
        latency == sound_output.latency_sample_count
    IN  /\ byte_to_lock = (index * pair) % size
        /\ target_cursor = (play_cursor + latency * pair) % size
        /\ bytes_to_write = IF byte_to_lock > target_cursor
                            THEN size - byte_to_lock + target_cursor
                            ELSE target_cursor - byte_to_lock
        /\ (size = 192000 /\ pair = 4 /\ latency = 800 /\ index = 0 /\ play_cursor = 0)
             => <<byte_to_lock, target_cursor, bytes_to_write>> = <<0, 3200, 3200>>
        /\ (size = 192000 /\ pair = 4 /\ latency = 800 /\ index = 47900
              /\ play_cursor = 190000)
             => <<byte_to_lock, target_cursor, bytes_to_write>> = <<191600, 1200, 1600>>

\* C1 witness: Plan has run on the wrapping scenario (index 47900, P = 190000, L = 800)
C1_Witness ==
  /\ pc = "count"
  /\ sound_output.buffer_size = 192000
  /\ sound_output.latency_sample_count = 800
  /\ sound_output.running_sample_index = 47900
  /\ play_cursor = 190000
  /\ byte_to_lock > target_cursor
  /\ bytes_to_write = 1600

\* the device pair at byte offset b holds pair k of the ToneBuffer
PairCopied(b, k) ==
  /\ secondary_buffer[b \div 2] = sound_buffer.samples[2 * k]
  /\ secondary_buffer[(b \div 2) + 1] = sound_buffer.samples[(2 * k) + 1]

\* fill_buffer has just returned from a granted lock
Written == pc = "present" /\ lock_result.locked

\* C2: after a granted Write, for every k in [0, bytes_to_write / bytes_per_pair)
\* the pair of the logical span at byte (byte_to_lock + k * bytes_per_pair) mod
\* buffer_size holds ToneBuffer pair k, also when the span is split in two regions.
C2_OneSourceIndex ==
  Written =>
    \A k \in 0..((bytes_to_write \div sound_output.bytes_per_sample) - 1) :
      PairCopied((byte_to_lock + k * sound_output.bytes_per_sample)
                   % sound_output.buffer_size, k)

\* C3 witness: a tick with bytes to write whose lock was denied
C3_Witness ==
  /\ pc = "present"
  /\ ~lock_result.locked
  /\ bytes_to_write > 0
  /\ \E j \in DOMAIN secondary_buffer : secondary_buffer[j] # 0

\* C3: when the device denies the lock, Write is skipped entirely: the device
\* buffer and every field of the sink hold their values from the top of the tick,
\* no unlock is issued, and fill_buffer returns normally so the tick goes on to present.
C3_DeniedLockSkipsWrite ==
  (pc = "present" /\ ~lock_result.locked) =>
    /\ secondary_buffer = at_tick.dev
    /\ sound_output = at_tick.so
    /\ ~lock_result.unlocked
    /\ steps = <<"cursor", "plan", "count", "render", "write">>
    /\ ENABLED DrawToWindow

\* byte b lies in the planned span [byte_to_lock, byte_to_lock + bytes_to_write)
InSpan(b) == ((b - byte_to_lock) % sound_output.buffer_size) < bytes_to_write
\* how far the write position is ahead of the play cursor, in bytes
Lead == (byte_to_lock - play_cursor) % sound_output.buffer_size
\* byte b is written and not yet consumed: in [play_cursor, byte_to_lock)
Unconsumed(b) == ((b - play_cursor) % sound_output.buffer_size) < Lead
\* the look-ahead in bytes
LatencyBytes == sound_output.latency_sample_count * sound_output.bytes_per_sample

\* C4 as stated: on every tick the planned span contains no byte of the circular
\* interval from the play cursor up to the write position, and never the byte at
\* the play cursor.
C4_SpanNeverHoldsUnconsumed ==
  Planned =>
    /\ \A b \in 0..(sound_output.buffer_size - 1) : ~(InSpan(b) /\ Unconsumed(b))
    /\ ~InSpan(play_cursor)

\* C4 amended: on a tick where the write position is at most L pairs ahead of the
\* play cursor, the planned span contains no byte from the play cursor up to the
\* write position, and holds the byte at the play cursor only when the write
\* position is the play cursor; when the write position is further ahead (the
\* play cursor has passed the look-ahead window) the span wraps and holds the
\* byte at the play cursor.
C4_SpanSafeWithinLookAhead ==
  Planned =>
    IF Lead <= LatencyBytes
    THEN /\ \A b \in 0..(sound_output.buffer_size - 1) : ~(InSpan(b) /\ Unconsumed(b))
         /\ InSpan(play_cursor) => byte_to_lock = play_cursor
         /\ bytes_to_write = LatencyBytes - Lead
    ELSE /\ InSpan(play_cursor)
         /\ \E b \in 0..(sound_output.buffer_size - 1) : InSpan(b) /\ Unconsumed(b)

\* C4 witness: a second tick planned with the writer inside the look-ahead window
C4_Witness ==
  /\ pc = "count"
  /\ ticks = 1
  /\ Lead > 0
  /\ Lead < LatencyBytes
  /\ bytes_to_write > 0

\* the write position in bytes
WritePosition ==
  (sound_output.running_sample_index * sound_output.bytes_per_sample)
    % sound_output.buffer_size

\* C5 as stated: after every granted Write the write position equals the
\* target_cursor of the same tick's Plan, for every play cursor.
C5_WriteReachesTarget == Written => WritePosition = target_cursor

\* C5 amended: after every granted Write the write position is the tick's
\* target rounded down to a whole pair, (P + L * bytes_per_pair - P mod
\* bytes_per_pair) mod buffer_size; it equals target_cursor, L pairs ahead of
\* the play cursor, exactly when P is a multiple of bytes_per_pair.
C5_WriteReachesTargetPair ==
  Written =>
    /\ WritePosition =
         (play_cursor + LatencyBytes - (play_cursor % sound_output.bytes_per_sample))
           % sound_output.buffer_size
    /\ (WritePosition = target_cursor) <=>
         (play_cursor % sound_output.bytes_per_sample = 0)

\* C5 witness: a granted, wrapping Write for a pair-aligned play cursor
C5_Witness ==
  /\ Written
  /\ play_cursor % sound_output.bytes_per_sample = 0
  /\ lock_result.reg.region_2_size > 0
  /\ WritePosition = target_cursor

\* C6: the regions of a granted Write: their sizes sum to bytes_to_write, region 1
\* starts at byte_to_lock, and region 2 is non-empty iff byte_to_lock +
\* bytes_to_write > buffer_size; byte_to_lock = 191600 and bytes_to_write = 1600
\* in a buffer of 192000 give 400 bytes, then 1200 bytes.
C6_WraparoundLaw ==
  /\ Written =>
       /\ byte_to_lock < sound_output.buffer_size
       /\ bytes_to_write <= sound_output.buffer_size
       /\ lock_result.reg.region_1_size + lock_result.reg.region_2_size = bytes_to_write
       /\ lock_result.reg.region_1_start = byte_to_lock
       /\ (lock_result.reg.region_2_size > 0) <=>
            (byte_to_lock + bytes_to_write > sound_output.buffer_size)
  /\ LET args == LockArgs(191600, 1600)
         reg == Lock(192000, args[1], args[2])
     IN  reg = [region_1_start |-> 191600, region_1_size |-> 400,
                region_2_size |-> 1200]

\* C6 witness: a granted Write split in two non-empty regions
C6_Witness ==
  /\ Written
  /\ lock_result.reg.region_1_size > 0
  /\ lock_result.reg.region_2_size > 0

\* C7: running_sample_index grows by region_1_size / bytes_per_pair +
\* region_2_size / bytes_per_pair in a granted Write, no other step (Plan,
\* clear, render, resize, tone change) changes it, and it never decreases.
C7_IndexCountsPairs ==
  [][LET pair == sound_output.bytes_per_sample
         before == sound_output.running_sample_index
         after == sound_output'.running_sample_index
     IN  /\ after >= before
         /\ IF pc = "write" /\ pc' = "present" /\ lock_result'.locked
            THEN after = before + (lock_result'.reg.region_1_size \div pair)
                                + (lock_result'.reg.region_2_size \div pair)
            ELSE after = before]_vars

\* C7 witness: a granted Write of two regions has advanced the index by its pairs
C7_Witness ==
  /\ Written
  /\ lock_result.reg.region_2_size >= sound_output.bytes_per_sample
  /\ sound_output.running_sample_index =
       at_tick.so.running_sample_index
         + (bytes_to_write \div sound_output.bytes_per_sample)
  /\ at_tick.so.running_sample_index > 0

\* is s a prefix of t
IsPrefix(s, t) == Len(s) <= Len(t) /\ \A k \in 1..Len(s) : s[k] = t[k]
TickOrder == <<"cursor", "plan", "count", "render", "write", "present">>
\* the device samples a granted Write has stored into
WrittenSamples ==
  {j \in DOMAIN secondary_buffer :
     \/ /\ 2 * j >= lock_result.reg.region_1_start
        /\ 2 * j < lock_result.reg.region_1_start
                     + sound_output.bytes_per_sample
                         * (lock_result.reg.region_1_size \div sound_output.bytes_per_sample)
     \/ 2 * j < sound_output.bytes_per_sample
                  * (lock_result.reg.region_2_size \div sound_output.bytes_per_sample)}

\* C8: the steps of a tick run in the order cursor, Plan, sample_count, render,
\* Write, present; the render uses sample_count = bytes_to_write / bytes_per_pair
\* and the tone and phase of this tick, every sample a Write stores was rendered
\* by this tick's render, and the frame presented is the one this tick stepped.
C8_TickOrder ==
  /\ IsPrefix(steps, TickOrder)
  /\ pc \in {"write", "present"} =>
       /\ rendered.sample_count = bytes_to_write \div sound_output.bytes_per_sample
       /\ rendered.tone_hz = HZ
       /\ rendered.t_sin = at_tick.t_sin
       /\ sound_buffer.sample_count = rendered.sample_count
  /\ Written =>
       \A j \in WrittenSamples :
         \E k \in 0..(rendered.sample_count - 1) :
           secondary_buffer[j] =
             SampleValue(sound_buffer, rendered.t_sin + k * PhaseStep(rendered.tone_hz))
  /\ (pc = "check" /\ steps = TickOrder) =>
       /\ presented = DISPLAY_BUFFER.memory
       /\ DISPLAY_BUFFER.current_offset = rendered.offset + 1
       /\ \A k \in 1..Len(presented) :
            presented[k].g =
              AsU8(Xor((k - 1) % DISPLAY_BUFFER.width, (k - 1) \div DISPLAY_BUFFER.height)
                     - rendered.offset)

\* C8 witness: a second tick, after a tone change, has written two regions and presented
C8_Witness ==
  /\ pc = "check"
  /\ steps = TickOrder
  /\ ticks = 2
  /\ lock_result.locked
  /\ lock_result.reg.region_2_size > 0
  /\ rendered.tone_hz # HZ_INIT
  /\ \E j \in WrittenSamples : secondary_buffer[j] # 0

\* C9: after clear_buffer returns, every byte of the device buffer is zero,
\* whatever it held before and whatever the device answered to the lock request.
C9_ClearLeavesSilence ==
  (pc = "check" /\ ticks = 0) => \A j \in DOMAIN secondary_buffer : secondary_buffer[j] = 0

\* C10: after step_render(step_by) the green channel of the pixel at linear index
\* i is ((i mod width) XOR (i div height)) - scroll_offset modulo 256, with the
\* scroll offset from before the step, and the scroll offset has grown by step_by.
C10_StepGreen ==
  pc = "stepped" =>
    /\ Len(DISPLAY_BUFFER.memory) = DISPLAY_BUFFER.width * DISPLAY_BUFFER.height
    /\ \A i \in 0..(Len(DISPLAY_BUFFER.memory) - 1) :
         DISPLAY_BUFFER.memory[i + 1].g =
           (Xor(i % DISPLAY_BUFFER.width, i \div DISPLAY_BUFFER.height)
              - stepped.from.current_offset) % 256
    /\ DISPLAY_BUFFER.current_offset = stepped.from.current_offset + stepped.by

\* C10 witness: a 4 x 3 frame with earlier contents stepped by 2 from offset 300
C10_Witness ==
  /\ pc = "stepped"
  /\ DISPLAY_BUFFER.width = 4
  /\ DISPLAY_BUFFER.height = 3
  /\ stepped.from.current_offset = 300
  /\ stepped.by = 2
  /\ stepped.from.memory[4].g = 204
  /\ DISPLAY_BUFFER.memory[4].g = 214

\* C11: resize_dib_section keeps the scrolling offset (a frame with offset 40
\* still has offset 40 after the resize) and gives the frame new_width *
\* new_height pixels, and the step_render after it computes x and y from the
\* new width and height.
C11_ResizeKeepsOffset ==
  /\ pc = "resized" =>
       /\ DISPLAY_BUFFER.current_offset = resized.from.current_offset
       /\ Len(DISPLAY_BUFFER.memory) = resized.width * resized.height
  /\ (pc = "stepped" /\ stepped.from.current_offset = resized.from.current_offset) =>
       \A i \in 0..(Len(DISPLAY_BUFFER.memory) - 1) :
         DISPLAY_BUFFER.memory[i + 1].g =
           AsU8(Xor(i % resized.width, i \div resized.height)
                  - stepped.from.current_offset)

\* C12: in every reachable state, the initial one included, the pixel sequence
\* of the frame has width * height elements.
C12_LengthIsWidthTimesHeight ==
  Len(DISPLAY_BUFFER.memory) = DISPLAY_BUFFER.width * DISPLAY_BUFFER.height

\* C18: a resize asked with new_width <= 0 or new_height <= 0 aborts with the
\* frame untouched: width, height, pixels, scroll offset and the bitmap
\* header keep their values, and no resize asked with such a size completes.
C18_BadResizeAbortsUntouched ==
  (pc \in {"resized", "stepped", "panicked"}
     /\ (resized.width <= 0 \/ resized.height <= 0)) =>
    /\ pc = "panicked"
    /\ DISPLAY_BUFFER = resized.from
    /\ BITMAP_INFO = [biWidth |-> 0, biHeight |-> 0]

\* C18 witness: a 4 x 3 frame in use, scrolled to 40, was asked to become 2 x 0
C18_Witness ==
  /\ pc = "panicked"
  /\ resized.width = 2
  /\ resized.height = 0
  /\ DISPLAY_BUFFER.width = 4
  /\ DISPLAY_BUFFER.height = 3
  /\ Len(DISPLAY_BUFFER.memory) = 12
  /\ DISPLAY_BUFFER.current_offset = 40

\* C13: from the same starting phase and with one tone, render_sound for n1
\* pairs and then for n2 pairs produces, taken together, the pairs and the
\* final phase of one render_sound for n1 + n2 pairs.
C13_RenderPhaseContinuous ==
  pc = "rendered" =>
    LET whole == render_sound([sound_buffer EXCEPT
                                 !.t_sin = at_tick.t_sin,
                                 !.sample_count = Len(produced)], HZ)
    IN  /\ produced = RenderedPairs(whole)
        /\ sound_buffer.t_sin = whole.t_sin

\* C13 witness: 2 pairs, then 3 pairs, from phase 7, and the pairs are not silence
C13_Witness ==
  /\ pc = "rendered"
  /\ at_tick.t_sin = 7
  /\ Len(produced) = 5
  /\ rendered.sample_count = 3
  /\ produced[3] # produced[1]
  /\ produced[5] # <<0, 0>>

\* C14: the first pair a Write stores has the phase one step after the phase of
\* the last pair stored by the previous successful Write, also when the tone
\* changed in between and when locks were denied on iterations in between.
C14_ToneContinuousAcrossWrites ==
  [][(/\ pc = "write"
      /\ pc' = "present"
      /\ lock_result'.locked
      /\ LastSourcePair(sound_output, lock_result'.reg) >= 0
      /\ written.any)
       => rendered.t_sin = written.next_t_sin]_vars

\* C15: after any sequence of tone changes the tone is strictly positive, and
\* render_sound is never called with tone_hz = 0.
C15_ToneStrictlyPositive ==
  /\ HZ > 0
  /\ pc = "write" => rendered.tone_hz > 0

\* the positions of one loop iteration after its message pump
AfterPump == {"cursor", "plan", "count", "render", "write", "present"}
\* the position that follows each of them
Following ==
  [p \in AfterPump |->
     CASE p = "cursor" -> "plan"
       [] p = "plan" -> "count"
       [] p = "count" -> "render"
       [] p = "render" -> "write"
       [] p = "write" -> "present"
       [] p = "present" -> "check"]

\* C16: the running flag is read only at the top of an iteration: read false
\* there, the loop is left and no Plan, render, Write or present runs any more;
\* cleared during an iteration, the iteration still runs each of its remaining
\* steps, in order, to its end.
C16_FlagReadAtTop ==
  [][/\ (pc = "check" /\ ~RUNNING) => pc' = "cleanup"
     /\ pc \in {"cleanup", "done"} =>
          /\ pc' \in {"cleanup", "done"}
          /\ steps' = steps
          /\ ticks' = ticks
          /\ <<sound_output, sound_buffer, secondary_buffer, presented>>' =
               <<sound_output, sound_buffer, secondary_buffer, presented>>
     /\ (pc = "pump" /\ ~RUNNING) => pc' \in {"pump", "cursor"}
     /\ (pc \in AfterPump /\ ~RUNNING) =>
          /\ pc' = Following[pc]
          /\ steps' = Append(steps, pc)]_vars

\* C16 witness: the flag was cleared in the pump of the first iteration, the
\* iteration ran to its present, and the loop was left at the next check
C16_Witness ==
  /\ pc = "cleanup"
  /\ ~RUNNING
  /\ ticks = 1
  /\ steps = <<"cursor", "plan", "count", "render", "write", "present">>
  /\ presented = DISPLAY_BUFFER.memory
  /\ releases = 0

\* C17: across one complete loop iteration the scrolling offset grows by
\* exactly 1, whichever window messages the iteration dispatched.
C17_OffsetOncePerTick ==
  (pc = "check" /\ steps = <<"cursor", "plan", "count", "render", "write", "present">>) =>
    DISPLAY_BUFFER.current_offset = at_tick.offset + 1

\* C19: the 32-bit computations on the running sample index never overflow,
\* and byte_to_lock is (pairs written so far * bytes_per_pair) mod buffer_size.
C19_IndexNeverOverflows ==
  /\ pc # "panicked"
  /\ Planned =>
       byte_to_lock =
         ((sound_output.running_sample_index % sound_output.buffer_size)
            * sound_output.bytes_per_sample) % sound_output.buffer_size

\* C20: iterations do not overlap, and between an iteration's play-cursor query
\* and its present no window message is handled: the tone, the running flag,
\* the frame geometry and the sink change only by the iteration's own steps.
C20_NoHandlerInsideTick ==
  [][/\ pc \in AfterPump =>
          /\ msgs' = msgs
          /\ HZ' = HZ
          /\ RUNNING' = RUNNING
          /\ BITMAP_INFO' = BITMAP_INFO
          /\ DISPLAY_BUFFER'.width = DISPLAY_BUFFER.width
          /\ DISPLAY_BUFFER'.height = DISPLAY_BUFFER.height
          /\ pc # "render" => DISPLAY_BUFFER' = DISPLAY_BUFFER
          /\ pc # "write" =>
               <<sound_output, secondary_buffer>>' = <<sound_output, secondary_buffer>>
          /\ pc \in {"plan", "count", "render", "write"} => sound_output = at_tick.so
          /\ pc' = Following[pc]
     /\ (pc' = "pump" /\ pc # "pump") =>
          /\ pc = "check"
          /\ steps \in {<<>>, <<"cursor", "plan", "count", "render", "write", "present">>}
          /\ steps' = <<>>]_vars

\* C20 witness: an iteration whose pump changed the tone has run to its present
\* with that tone
C20_Witness ==
  /\ pc = "present"
  /\ msgs = MaxMsgs
  /\ HZ # HZ_INIT
  /\ rendered.tone_hz = HZ
  /\ lock_result.locked
  /\ bytes_to_write > 0

\* C21: after fill_buffer or clear_buffer has returned, a granted lock has been
\* unlocked, with the two regions the lock returned, a denied lock has not been
\* followed by an unlock, and no lock is left outstanding.
C21_LockThenUnlock ==
  /\ lock_result.locked <=> lock_result.unlocked
  /\ lock_result.locked => lock_result.released = lock_result.reg
  /\ ~lock_result.locked => lock_result.released = NoRegion

\* C21 witness: a granted Write over two regions has returned
C21_Witness ==
  /\ pc = "present"
  /\ lock_result.locked
  /\ lock_result.unlocked
  /\ lock_result.reg.region_1_size > 0
  /\ lock_result.released.region_2_size > 0

\* C22: step_render leaves the blue, red and alpha channel of every pixel, the
\* width, the height and the number of pixels as they were; it changes only
\* green channels and the scroll offset.
C22_StepTouchesGreenOnly ==
  pc = "stepped" =>
    /\ DISPLAY_BUFFER.width = stepped.from.width
    /\ DISPLAY_BUFFER.height = stepped.from.height
    /\ Len(DISPLAY_BUFFER.memory) = Len(stepped.from.memory)
    /\ DOMAIN DISPLAY_BUFFER = DOMAIN stepped.from
    /\ \A k \in 1..Len(DISPLAY_BUFFER.memory) :
         /\ DISPLAY_BUFFER.memory[k].b = stepped.from.memory[k].b
         /\ DISPLAY_BUFFER.memory[k].r = stepped.from.memory[k].r
         /\ DISPLAY_BUFFER.memory[k].a = stepped.from.memory[k].a

\* C22 witness: a 2 x 2 frame with coloured pixels was stepped and its green changed
C22_Witness ==
  /\ pc = "stepped"
  /\ DISPLAY_BUFFER.width = 2
  /\ DISPLAY_BUFFER.height = 2
  /\ stepped.from.memory[2].a = 255
  /\ stepped.from.memory[2].b = 14
  /\ DISPLAY_BUFFER.memory[2].g # stepped.from.memory[2].g

\* C25: the green channels and the scroll offset after step_render depend only
\* on width, height and scroll offset: they are those of a frame of the same
\* width, height and offset whose pixels were all default, whatever the pixels
\* held before and whatever the tone is.
C25_StepDependsOnGeometryOnly ==
  pc = "stepped" =>
    LET blank == step_render([stepped.from EXCEPT
                                !.memory = [k \in 1..Len(stepped.from.memory) |->
                                              DefaultPixel]],
                             stepped.by)
    IN  /\ \A k \in 1..Len(DISPLAY_BUFFER.memory) :
             DISPLAY_BUFFER.memory[k].g = blank.memory[k].g
        /\ DISPLAY_BUFFER.current_offset = blank.current_offset

\* C25 witness: a frame with earlier pixel contents, under a raised tone, was stepped
C25_Witness ==
  /\ pc = "stepped"
  /\ HZ = HZ_INIT + HZ_STEP
  /\ Len(DISPLAY_BUFFER.memory) = 6
  /\ stepped.from.memory[6].g = 206
  /\ stepped.from.current_offset = 255

\* C23: after a resize with positive sizes the frame has the new width and
\* height and new_width * new_height pixels, every newly allocated pixel is the
\* default pixel, the pixels at retained indices are as they were, and a
\* resize to the same size leaves the pixel sequence as it was.
C23_ResizeKeepsPixels ==
  pc = "resized" =>
    /\ DISPLAY_BUFFER.width = resized.width
    /\ DISPLAY_BUFFER.height = resized.height
    /\ Len(DISPLAY_BUFFER.memory) = resized.width * resized.height
    /\ \A k \in 1..Len(DISPLAY_BUFFER.memory) :
         IF k > Len(resized.from.memory)
         THEN DISPLAY_BUFFER.memory[k] = DefaultPixel
         ELSE DISPLAY_BUFFER.memory[k] = resized.from.memory[k]

\* C24: a render_sound call for sample_count pairs leaves the same value in the
\* left and the right slot of each of these pairs, leaves the slots from
\* 2 * sample_count on and the (even) length of the buffer as they were, and
\* advances the phase by sample_count steps of 2*pi / wave_period (tone_hz
\* steps of 2*pi / sample_rate each).
C24_RenderWritesPairs ==
  [][(pc \in {"render1", "render2"}) =>
       LET n == sound_buffer'.sample_count
       IN  /\ \A k \in 0..(n - 1) :
                sound_buffer'.samples[2 * k] = sound_buffer'.samples[2 * k + 1]
           /\ DOMAIN sound_buffer'.samples = DOMAIN sound_buffer.samples
           /\ Cardinality(DOMAIN sound_buffer'.samples) % 2 = 0
           /\ \A i \in DOMAIN sound_buffer.samples :
                i >= 2 * n => sound_buffer'.samples[i] = sound_buffer.samples[i]
           /\ sound_buffer'.t_sin = sound_buffer.t_sin + n * HZ]_vars

\* C24 witness: a call for 1 pair after a call for 3 pairs: the slots of the
\* second and third pair still hold what the first call wrote
C24_Witness ==
  /\ pc = "rendered"
  /\ Len(produced) = 4
  /\ rendered.sample_count = 1
  /\ sound_buffer.samples[0] = sound_buffer.samples[1]
  /\ sound_buffer.samples[0] # 0
  /\ <<sound_buffer.samples[2], sound_buffer.samples[3]>> = produced[2]
  /\ produced[2] # <<0, 0>>

\* C26: a key-down Up message sets the tone to min(tone + 64, 65535), a
\* key-down Down message sets it to max(tone - 64, 0), key-up messages and all
\* other keys leave it as it was, and the 16-bit tone never wraps around.
C26_ToneKeysSaturate ==
  [][(pc = "keys") =>
       /\ HZ' \in 0..65535
       /\ IF last_key'.vk = "VK_UP" /\ last_key'.is_down
          THEN /\ HZ' = (IF HZ + 64 < 65535 THEN HZ + 64 ELSE 65535)
               /\ HZ' >= HZ
          ELSE IF last_key'.vk = "VK_DOWN" /\ last_key'.is_down
          THEN /\ HZ' = (IF HZ - 64 > 0 THEN HZ - 64 ELSE 0)
               /\ HZ' <= HZ
          ELSE HZ' = HZ]_vars

\* C26 witness: Up was pressed twice from 65472: the tone went to 65535 and stayed
C26_Witness ==
  /\ pc = "keys"
  /\ msgs = 2
  /\ HZ = 65535
  /\ last_key.vk = "VK_UP"
  /\ last_key.is_down
  /\ DISPLAY_BUFFER.current_offset = 2

\* the slots of source_buffer.samples the two loops of fill_buffer read
FillReads(so, reg) ==
  LET c1 == reg.region_1_size \div so.bytes_per_sample
      c2 == reg.region_2_size \div so.bytes_per_sample
  IN  (0..(2 * c1 - 1)) \cup {Region2Source(c1, i) : i \in 0..(2 * c2 - 1)}

\* C27: on every tick byte_to_lock and target_cursor are below buffer_size and
\* bytes_to_write is in 0..buffer_size - 1, neither branch of the subtraction
\* goes below zero, 2 * sample_count is at most the buffer_size slots of the
\* tone buffer, and render_sound and fill_buffer index only slots it has.
C27_PlanWithinBuffer ==
  /\ Planned =>
       /\ byte_to_lock \in 0..(sound_output.buffer_size - 1)
       /\ target_cursor \in 0..(sound_output.buffer_size - 1)
       /\ bytes_to_write \in 0..(sound_output.buffer_size - 1)
       /\ IF byte_to_lock > target_cursor
          THEN /\ sound_output.buffer_size - byte_to_lock >= 0
               /\ bytes_to_write
                    = (sound_output.buffer_size - byte_to_lock) + target_cursor
          ELSE /\ target_cursor - byte_to_lock >= 0
               /\ bytes_to_write = target_cursor - byte_to_lock
  /\ (pc \in {"render", "write", "present"}) =>
       /\ Cardinality(DOMAIN sound_buffer.samples) = sound_output.buffer_size
       /\ 2 * sound_buffer.sample_count <= Cardinality(DOMAIN sound_buffer.samples)
       /\ 0..(2 * sound_buffer.sample_count - 1) \subseteq DOMAIN sound_buffer.samples
  /\ (pc \in {"write", "present"}) =>
       FillReads(sound_output, Lock(sound_output.buffer_size, byte_to_lock, bytes_to_write))
         \subseteq DOMAIN sound_buffer.samples

\* C27 witness: a granted write of the longest span, buffer_size - 1 bytes,
\* planned in the branch where byte_to_lock is past target_cursor
C27_Witness ==
  /\ pc = "present"
  /\ lock_result.locked
  /\ byte_to_lock > target_cursor
  /\ bytes_to_write = sound_output.buffer_size - 1
  /\ lock_result.reg.region_2_size > 0
  /\ 2 * sound_buffer.sample_count >= (sound_output.buffer_size \div 2) - 2

\* a byte count or byte offset that falls on a pair boundary
PairAligned(b) == b % sound_output.bytes_per_sample = 0

\* C28: buffer_size is a multiple of bytes_per_sample and so is byte_to_lock on
\* every tick; when the play cursor is one too, bytes_to_write and both region
\* sizes are, and a granted write stores whole pairs over every locked byte.
C28_PairAligned ==
  /\ PairAligned(sound_output.buffer_size)
  /\ Planned =>
       /\ PairAligned(byte_to_lock)
       /\ PairAligned(play_cursor) =>
            /\ PairAligned(target_cursor)
            /\ PairAligned(bytes_to_write)
            /\ PairAligned(Lock(sound_output.buffer_size,
                                byte_to_lock, bytes_to_write).region_1_size)
            /\ PairAligned(Lock(sound_output.buffer_size,
                                byte_to_lock, bytes_to_write).region_2_size)
  /\ (Written /\ PairAligned(play_cursor)) =>
       /\ PairAligned(lock_result.reg.region_1_start)
       /\ PairAligned(lock_result.reg.region_1_size)
       /\ PairAligned(lock_result.reg.region_2_size)
       /\ lock_result.reg.region_1_size + lock_result.reg.region_2_size = bytes_to_write
       /\ sound_output.bytes_per_sample * PairsWritten(sound_output, lock_result.reg)
            = bytes_to_write
       /\ sound_output.running_sample_index
            = at_tick.so.running_sample_index
                + (bytes_to_write \div sound_output.bytes_per_sample)

\* C28 witness: a granted write at an aligned play cursor that fills two regions
C28_Witness ==
  /\ Written
  /\ PairAligned(play_cursor)
  /\ lock_result.reg.region_1_size >= 2 * sound_output.bytes_per_sample
  /\ lock_result.reg.region_2_size >= 2 * sound_output.bytes_per_sample

\* C29: the assertions of step_render hold every time it runs, from a tick
\* and from a resize, and a resize has happened before the first tick's step.
C29_StepAssertsHold ==
  /\ pc # "panicked"
  /\ (pc = "render") =>
       /\ StepRenderAsserts(DISPLAY_BUFFER)
       /\ msgs >= 1
       /\ DISPLAY_BUFFER.width = BITMAP_INFO.biWidth
       /\ DISPLAY_BUFFER.height = BITMAP_INFO.biHeight
  /\ (pc \in {"create", "pump"}) =>
       StepRenderAsserts(resize_geometry(DISPLAY_BUFFER, ModelWidth, ModelHeight))
  /\ (msgs >= 1) =>
       /\ StepRenderAsserts(stepped.from)
       /\ StepRenderAsserts(DISPLAY_BUFFER)

\* C29 witness: the first tick's step has run after exactly one resize
C29_Witness ==
  /\ pc = "write"
  /\ msgs = 1
  /\ Len(steps) > 0
  /\ stepped.by = 1
  /\ StepRenderAsserts(stepped.from)
  /\ stepped.from.current_offset = 1
  /\ DISPLAY_BUFFER.current_offset = 2

\* the direct path run on the tick's starting sink, phase and device memory with
\* the tick's play cursor, tone and lock outcome
DirectPath ==
  render_to_buffer(at_tick.so,
                   [sound_buffer EXCEPT !.t_sin = at_tick.t_sin],
                   at_tick.dev, rendered.tone_hz,
                   ByteToLock(at_tick.so),
                   BytesToWrite(at_tick.so, ByteToLock(at_tick.so),
                                TargetCursor(at_tick.so, play_cursor)),
                   lock_result.locked)

\* C30: after every tick the render-then-copy path (render_sound, then
\* fill_buffer) has left the device memory, running_sample_index and phase that
\* the direct path (render_to_buffer) leaves from the same start and inputs.
C30_PathsEquivalent ==
  (pc = "present") =>
    /\ secondary_buffer = DirectPath.dev
    /\ sound_output.running_sample_index = DirectPath.so.running_sample_index
    /\ sound_buffer.t_sin = DirectPath.t_sin

\* C31: once a quit signal (WM_QUIT, WM_CLOSE, WM_DESTROY, Escape, Alt+F4) has
\* been handled RUNNING stays false, the loop leaves at its next check at the top
\* of an iteration, the cleanup block runs exactly once, and, every tick
\* completing, the program reaches its end.
C31_QuitTerminates ==
  /\ [](quit_handled => ~RUNNING)
  /\ [][(pc = "check" /\ quit_handled) => (pc' = "cleanup")]_vars
  /\ [](releases = IF pc = "done" THEN 1 ELSE 0)
  /\ (quit_handled ~> (pc = "done" /\ releases = 1))

\* C31 witness: a quit signal was handled in the first iteration's pump, the
\* iteration ran to its end, the loop left and the cleanup block has run
C31_Witness ==
  /\ pc = "done"
  /\ quit_handled
  /\ ~RUNNING
  /\ ticks = 1
  /\ Len(steps) > 0
  /\ releases = 1

====
